---- MODULE Spec2Model ----
(***************************************************************************)
(* A model of kdtree::PointSet (src/src/2dtree.cpp, src/include/           *)
(* primitives.h): the node graph with its child and parent links, the      *)
(* insertion with partial rebuilding, the queries and the two-form         *)
(* iterator.                                                               *)
(*                                                                         *)
(* Coordinates.  A coordinate k of the model is the double                 *)
(* 1/2 + k * 2^-53: the doubles of [1/2, 1) are spaced 2^-53 apart, half   *)
(* of EPS = 2^-52, and every sum and difference the code forms with EPS    *)
(* is exact there.  One unit of the model is EPS / 2.  The points given    *)
(* to a PointSet are taken EPS apart (Coords); Rect is also exercised on   *)
(* the full grid (FineCoords), where two coordinates can differ by less    *)
(* than EPS.  Distances.  A distance d is held as sign(d) * d^2, which     *)
(* orders as d does, so that std::sqrt needs no model.                     *)
(***************************************************************************)
EXTENDS Integers, Sequences, FiniteSets

\* Bounds of the model.
MaxCoord == 2
MaxNodes == 5
MaxFile == 3

\* Program constants.
EPS == 2
alpha == 65
NULL == 0

Coords == {EPS * k : k \in 0..MaxCoord}
Points == [x : Coords, y : Coords]

FineCoords == 0..(EPS * MaxCoord)
FinePoints == [x : FineCoords, y : FineCoords]

\* the addresses of the model's memory
Cells == (MaxCoord + 1) * (MaxCoord + 1)

VARIABLES
    nodes,      \* the memory of the set's Node objects, by address
    m_root,     \* PointSet::m_root: an address, or NULL
    fault,      \* the process has run into undefined behaviour and stopped
    inserted,   \* history: the points handed to put (or loaded) so far
    hist,       \* history: the last construction or put, and whether it rebuilt
    ret,        \* the query in hand and what it returned, op "none" without one
    visited,    \* history: the points the returned iterator was dereferenced at
    cp          \* the PointSet made by the copy constructor, if any

vars == <<nodes, m_root, fault, inserted, hist, ret, visited, cp>>

----------------------------------------------------------------------------
\* Point

Abs(v) == IF v < 0 THEN -v ELSE v

sqr(v) == v * v

\* a single-axis gap g as a distance value (sign(g) * g^2)
Lin(g) == IF g >= 0 THEN g * g ELSE -(g * g)

PointDistance(a, b) == sqr(a.x - b.x) + sqr(a.y - b.y)

in_quad(self, other, quad) ==
    CASE quad = "First"  -> other.x > self.x - EPS /\ other.y > self.y - EPS
      [] quad = "Second" -> other.x < self.x + EPS /\ other.y > self.y - EPS
      [] quad = "Third"  -> other.x < self.x + EPS /\ other.y < self.y + EPS
      [] quad = "Fourth" -> other.x > self.x - EPS /\ other.y < self.y + EPS
      [] OTHER -> FALSE

\* a comparison that forgets the y coordinate
PointEq_XOnly(a, b) == Abs(a.x - b.x) < EPS

PointEq(a, b) == Abs(a.x - b.x) < EPS /\ Abs(a.y - b.y) < EPS

PointLt(a, b) == (a.x < b.x) \/ (Abs(a.x - b.x) < EPS /\ a.y < b.y)

----------------------------------------------------------------------------
\* Rect

MakeRect(left_bottom, right_top) ==
    [left_bottom |-> left_bottom, right_top |-> right_top]

xmin(r) == r.left_bottom.x
ymin(r) == r.left_bottom.y
xmax(r) == r.right_top.x
ymax(r) == r.right_top.y

RectContains(r, p) ==
    in_quad(r.left_bottom, p, "First") /\ in_quad(r.right_top, p, "Third")

\* a dispatch that measures to the far corner in the upper right quadrant
RectDistance_FarCorner(r, p) ==
    IF RectContains(r, p) THEN 0
    ELSE IF in_quad(r.right_top, p, "First") THEN PointDistance(r.left_bottom, p)
    ELSE IF in_quad(r.left_bottom, p, "Third") THEN PointDistance(r.left_bottom, p)
    ELSE IF in_quad(r.right_top, p, "Fourth")
        THEN (IF p.y > ymin(r) THEN Lin(p.x - xmax(r))
              ELSE PointDistance(p, [x |-> xmax(r), y |-> ymin(r)]))
    ELSE IF in_quad(r.left_bottom, p, "Second")
        THEN (IF p.y > ymin(r) THEN Lin(xmin(r) - p.x)
              ELSE PointDistance(p, [x |-> xmin(r), y |-> ymax(r)]))
    ELSE IF p.y > ymax(r) THEN Lin(p.y - ymax(r)) ELSE Lin(ymin(r) - p.y)

RectDistance(r, p) ==
    IF RectContains(r, p) THEN 0
    ELSE IF in_quad(r.right_top, p, "First") THEN PointDistance(r.right_top, p)
    ELSE IF in_quad(r.left_bottom, p, "Third") THEN PointDistance(r.left_bottom, p)
    ELSE IF in_quad(r.right_top, p, "Fourth")
        THEN (IF p.y > ymin(r) THEN Lin(p.x - xmax(r))
              ELSE PointDistance(p, [x |-> xmax(r), y |-> ymin(r)]))
    ELSE IF in_quad(r.left_bottom, p, "Second")
        THEN (IF p.y > ymin(r) THEN Lin(xmin(r) - p.x)
              ELSE PointDistance(p, [x |-> xmin(r), y |-> ymax(r)]))
    ELSE IF p.y > ymax(r) THEN Lin(p.y - ymax(r)) ELSE Lin(ymin(r) - p.y)

\* a test that takes rectangles sharing only a boundary line for disjoint
RectIntersects_Open(r, other) ==
    ~(ymin(other) >= ymax(r) \/ ymax(other) <= ymin(r)
        \/ xmin(other) >= xmax(r) \/ xmax(other) <= xmin(r))

RectIntersects(r, other) ==
    ~(ymin(other) > ymax(r) \/ ymax(other) < ymin(r)
        \/ xmin(other) > xmax(r) \/ xmax(other) < xmin(r))

----------------------------------------------------------------------------
\* Node.  ns is a memory of Node objects: a function from addresses to Nodes
\* (or Free), an address being a positive integer.

Min(a, b) == IF a < b THEN a ELSE b
Max(a, b) == IF a > b THEN a ELSE b

Node(point) ==
    [point |-> point, rect |-> MakeRect(point, point), size |-> 1,
     left |-> NULL, right |-> NULL, parent |-> NULL]

Free == [free |-> TRUE]

\* The allocator behind std::make_shared / std::make_unique: an address that
\* is free.  Which one is the allocator's choice; this one takes the cell
\* numbered after the point when it is free, and the first free cell otherwise.
Alloc(ns, point) ==
    LET pref == (point.x \div EPS) * (MaxCoord + 1) + (point.y \div EPS) + 1
    IN  IF ns[pref] = Free THEN pref
        ELSE CHOOSE a \in DOMAIN ns :
                ns[a] = Free /\ \A b \in DOMAIN ns : b < a => ns[b] # Free

Live(ns) == {a \in DOMAIN ns : ns[a] # Free}

get_size(ns, n) == IF n # NULL THEN ns[n].size ELSE 0

update_rect_by(ns, self, n) ==
    IF n = NULL THEN ns
    ELSE [ns EXCEPT ![self].rect =
            MakeRect([x |-> Min(xmin(ns[self].rect), xmin(ns[n].rect)),
                      y |-> Min(ymin(ns[self].rect), ymin(ns[n].rect))],
                     [x |-> Max(xmax(ns[self].rect), xmax(ns[n].rect)),
                      y |-> Max(ymax(ns[self].rect), ymax(ns[n].rect))])]

\* an update that forgets the right child's rectangle
update_data_LeftOnly(ns, self) ==
    LET s1 == [ns EXCEPT
                 ![self].size = 1 + get_size(ns, ns[self].left)
                                  + get_size(ns, ns[self].right),
                 ![self].rect = MakeRect(ns[self].point, ns[self].point)]
    IN  IF s1[self].left = NULL /\ s1[self].right = NULL THEN s1
        ELSE update_rect_by(s1, self, s1[self].left)

update_data(ns, self) ==
    LET s1 == [ns EXCEPT
                 ![self].size = 1 + get_size(ns, ns[self].left)
                                  + get_size(ns, ns[self].right),
                 ![self].rect = MakeRect(ns[self].point, ns[self].point)]
    IN  IF s1[self].left = NULL /\ s1[self].right = NULL THEN s1
        ELSE update_rect_by(update_rect_by(s1, self, s1[self].left),
                            self, s1[self].right)

----------------------------------------------------------------------------
\* A std::shared_ptr<Node> & is a slot: m_root, or a child field of a Node.
\* h is a PointSet's heap, [nodes |-> ns, root |-> m_root].

RootSlot == [owner |-> NULL, side |-> "root"]
NoSlot == [owner |-> NULL, side |-> "none"]

Deref(h, slot) ==
    IF slot.owner = NULL THEN h.root
    ELSE IF slot.side = "left" THEN h.nodes[slot.owner].left
    ELSE h.nodes[slot.owner].right

Store(h, slot, v) ==
    IF slot.owner = NULL THEN [h EXCEPT !.root = v]
    ELSE IF slot.side = "left" THEN [h EXCEPT !.nodes[slot.owner].left = v]
    ELSE [h EXCEPT !.nodes[slot.owner].right = v]

RECURSIVE set_parents(_, _)
set_parents(ns, node) ==
    LET l == ns[node].left
        s1 == IF l # NULL
              THEN set_parents([ns EXCEPT ![l].parent = node], l)
              ELSE ns
        r == s1[node].right
    IN  IF r # NULL
        THEN set_parents([s1 EXCEPT ![r].parent = node], r)
        ELSE s1

less(lhs, rhs, check_x) == IF check_x THEN lhs.x < rhs.x ELSE lhs.y < rhs.y

\* std::sort over at most 16 elements is an insertion sort: equal keys keep
\* their order.
RECURSIVE InsertSorted(_, _, _, _)
InsertSorted(ns, sorted, n, check_x) ==
    IF sorted = <<>> THEN <<n>>
    ELSE LET last == sorted[Len(sorted)]
         IN  IF less(ns[n].point, ns[last].point, check_x)
             THEN Append(InsertSorted(ns, SubSeq(sorted, 1, Len(sorted) - 1),
                                      n, check_x), last)
             ELSE Append(sorted, n)

RECURSIVE Sort(_, _, _)
Sort(ns, seq, check_x) ==
    IF seq = <<>> THEN <<>>
    ELSE InsertSorted(ns, Sort(ns, SubSeq(seq, 1, Len(seq) - 1), check_x),
                      seq[Len(seq)], check_x)

\* a median left where the halving put it
ShiftMedian_None(ns, sorted, median, check_x) == median

RECURSIVE ShiftMedian(_, _, _, _)
ShiftMedian(ns, sorted, median, check_x) ==
    IF median # 1
        /\ ~less(ns[sorted[median - 1]].point, ns[sorted[median]].point, check_x)
    THEN ShiftMedian(ns, sorted, median - 1, check_x)
    ELSE median

\* build_tree over the slice seq of node addresses: [nodes, root]
RECURSIVE build_tree(_, _, _)
build_tree(ns, seq, check_x) ==
    IF seq = <<>> THEN [nodes |-> ns, root |-> NULL]
    ELSE LET sorted == Sort(ns, seq, check_x)
             median == ShiftMedian(ns, sorted, (Len(sorted) \div 2) + 1, check_x)
             result == sorted[median]
             l == build_tree(ns, SubSeq(sorted, 1, median - 1), ~check_x)
             r == build_tree(l.nodes, SubSeq(sorted, median + 1, Len(sorted)),
                             ~check_x)
             s1 == [r.nodes EXCEPT ![result].left = l.root,
                                   ![result].right = r.root]
         IN  [nodes |-> update_data(s1, result), root |-> result]

balanced(ns, root) ==
    /\ 100 * get_size(ns, ns[root].left) <= alpha * get_size(ns, root)
    /\ 100 * get_size(ns, ns[root].right) <= alpha * get_size(ns, root)

\* move_to_vector: the subtree's addresses in order, every child field moved
\* from (left NULL): [nodes, result]
RECURSIVE move_to_vector(_, _)
move_to_vector(ns, root) ==
    IF root = NULL THEN [nodes |-> ns, result |-> <<>>]
    ELSE LET l == move_to_vector(ns, ns[root].left)
             s1 == [l.nodes EXCEPT ![root].left = NULL]
             r == move_to_vector(s1, s1[root].right)
             s2 == [r.nodes EXCEPT ![root].right = NULL]
         IN  [nodes |-> s2, result |-> l.result \o <<root>> \o r.result]

rebuild_tree(ns, root, check_x) ==
    LET v == move_to_vector(ns, root)
    IN  build_tree(v.nodes, v.result, check_x)

\* insert: [h, broken, check]; broken is the slot of the unbalanced node
\* nearest to the root, or NoSlot
RECURSIVE insert(_, _, _, _)
insert(h, slot, point, check_x) ==
    LET root == Deref(h, slot)
    IN  IF root = NULL
        THEN LET a == Alloc(h.nodes, point)
             IN  [h |-> Store([h EXCEPT !.nodes[a] = Node(point)], slot, a),
                  broken |-> NoSlot, check |-> FALSE]
        ELSE IF PointEq(h.nodes[root].point, point)
        THEN [h |-> h, broken |-> NoSlot, check |-> FALSE]
        ELSE LET to == [owner |-> root,
                        side |-> IF less(point, h.nodes[root].point, check_x)
                                 THEN "left" ELSE "right"]
                 sub == insert(h, to, point, ~check_x)
                 s1 == update_data(sub.h.nodes, root)
                 s2 == [s1 EXCEPT ![Deref(sub.h, to)].parent = root]
             IN  IF balanced(s2, root)
                 THEN [h |-> [sub.h EXCEPT !.nodes = s2],
                       broken |-> sub.broken, check |-> sub.check]
                 ELSE [h |-> [sub.h EXCEPT !.nodes = s2],
                       broken |-> slot, check |-> check_x]

\* put: [h, rebuilt, inner]; inner: the rebuilt subtree was not the whole tree
put(h, point) ==
    LET ins == insert(h, RootSlot, point, TRUE)
    IN  IF ins.broken # NoSlot
        THEN LET old == Deref(ins.h, ins.broken)
                 parent == ins.h.nodes[old].parent
                 built == rebuild_tree(ins.h.nodes, old, ins.check)
                 h1 == Store([ins.h EXCEPT !.nodes = built.nodes],
                             ins.broken, built.root)
                 s1 == [h1.nodes EXCEPT ![built.root].parent = parent]
             IN  [h |-> [h1 EXCEPT !.nodes = set_parents(s1, built.root)],
                  rebuilt |-> TRUE, inner |-> ins.broken # RootSlot]
        ELSE [h |-> ins.h, rebuilt |-> FALSE, inner |-> FALSE]

size(h) == get_size(h.nodes, h.root)

empty(h) == h.root = NULL

----------------------------------------------------------------------------
\* The queries.

RECURSIVE contains_from(_, _, _, _)
\* a descent that keeps comparing on the axis it started with
contains_from_SameAxis(ns, current, point, check_x) ==
    IF current = NULL THEN FALSE
    ELSE IF PointEq(ns[current].point, point) THEN TRUE
    ELSE contains_from(ns,
                       IF less(point, ns[current].point, check_x)
                       THEN ns[current].left ELSE ns[current].right,
                       point, check_x)

contains_from(ns, current, point, check_x) ==
    IF current = NULL THEN FALSE
    ELSE IF PointEq(ns[current].point, point) THEN TRUE
    ELSE contains_from(ns,
                       IF less(point, ns[current].point, check_x)
                       THEN ns[current].left ELSE ns[current].right,
                       point, ~check_x)

contains(h, point) == contains_from(h.nodes, h.root, point, TRUE)

RECURSIVE range_rec(_, _, _, _)
range_rec(ns, root, rect, result) ==
    IF root = NULL \/ ~RectIntersects(ns[root].rect, rect) THEN result
    ELSE LET r1 == IF RectContains(rect, ns[root].point)
                   THEN Append(result, root) ELSE result
             l == ns[root].left
             r2 == IF l # NULL /\ RectIntersects(ns[l].rect, rect)
                   THEN range_rec(ns, l, rect, r1) ELSE r1
             r == ns[root].right
         IN  IF r # NULL /\ RectIntersects(ns[r].rect, rect)
             THEN range_rec(ns, r, rect, r2) ELSE r2

\* std::numeric_limits<double>::max(): above every distance of the model
DBL_MAX == 2 * sqr(EPS * (MaxCoord + 1))

\* st is [current_min, current_ans]
RECURSIVE nearest_rec(_, _, _, _)
nearest_rec(ns, root, point, st) ==
    IF root = NULL \/ RectDistance(ns[root].rect, point) >= st.current_min THEN st
    ELSE LET s1 == IF PointDistance(point, ns[root].point) < st.current_min
                   THEN [current_min |-> PointDistance(point, ns[root].point),
                         current_ans |-> root]
                   ELSE st
             s2 == nearest_rec(ns, ns[root].left, point, s1)
         IN  nearest_rec(ns, ns[root].right, point, s2)

\* std::optional<Point>
nullopt == [has |-> FALSE]

nearest(h, point) ==
    LET st == nearest_rec(h.nodes, h.root, point,
                          [current_min |-> DBL_MAX, current_ans |-> NULL])
    IN  IF st.current_ans # NULL
        THEN [has |-> TRUE, value |-> h.nodes[st.current_ans].point]
        ELSE nullopt

----------------------------------------------------------------------------
\* The iterator: std::variant<list_t, node_t>, index 0 the list form.

ListIt(points) == [index |-> 0, list |-> points, node |-> NULL]
NodeIt(current) == [index |-> 1, list |-> <<>>, node |-> current]

DefaultIt == ListIt(<<>>)

IterEq(lhs, rhs) ==
    /\ lhs.index = rhs.index
    /\ IF lhs.index = 0 THEN lhs.list = rhs.list ELSE lhs.node = rhs.node

RECURSIVE begin_node(_, _)
\* a begin that does not descend to the leftmost node
begin_node_Root(ns, root) == root

begin_node(ns, root) ==
    IF root = NULL THEN NULL
    ELSE IF ns[root].left # NULL THEN begin_node(ns, ns[root].left)
    ELSE root

RECURSIVE next_up(_, _)
next_up(ns, ans) ==
    IF ns[ans].parent = NULL THEN NULL
    ELSE LET parent == ns[ans].parent
         IN  IF ns[parent].left # NULL /\ ns[parent].left = ans THEN parent
             ELSE next_up(ns, parent)

next(ns, node) ==
    IF ns[node].right # NULL THEN begin_node(ns, ns[node].right)
    ELSE next_up(ns, node)

begin(h) == NodeIt(begin_node(h.nodes, h.root))

\* an end() built as the default iterator
end_Default == DefaultIt

end == NodeIt(NULL)

IterDeref(ns, i) ==
    IF i.index # 0 THEN ns[i.node].point ELSE ns[i.list[Len(i.list)]].point

IterInc(ns, i) ==
    IF i.index = 0 THEN ListIt(SubSeq(i.list, 1, Len(i.list) - 1))
    ELSE NodeIt(next(ns, i.node))

range(h, rect) ==
    [first |-> ListIt(range_rec(h.nodes, h.root, rect, <<>>)), last |-> DefaultIt]

\* The heap of nearest(point, k) is kept as the array in descending distance,
\* which is a max-heap: front() is a farthest element.
less_dist(ns, point, lhs, rhs) ==
    PointDistance(point, ns[lhs].point) < PointDistance(point, ns[rhs].point)

RECURSIVE push_heap(_, _, _, _)
push_heap(ns, point, heap, n) ==
    IF heap = <<>> THEN <<n>>
    ELSE IF less_dist(ns, point, heap[1], n) THEN <<n>> \o heap
    ELSE <<heap[1]>> \o push_heap(ns, point, Tail(heap), n)

RECURSIVE make_heap(_, _, _)
make_heap(ns, point, seq) ==
    IF seq = <<>> THEN <<>>
    ELSE push_heap(ns, point, make_heap(ns, point, Tail(seq)), seq[1])

RECURSIVE take(_, _, _)
take(ns, current, k) ==
    IF k = 0 THEN [heap |-> <<>>, current |-> current]
    ELSE LET rest == take(ns, next(ns, current), k - 1)
         IN  [heap |-> <<current>> \o rest.heap, current |-> rest.current]

RECURSIVE scan(_, _, _, _)
\* a scan that never replaces the farthest element
scan_Keep(ns, point, heap, current) == heap

scan(ns, point, heap, current) ==
    IF current = NULL THEN heap
    ELSE scan(ns, point,
              IF less_dist(ns, point, current, heap[1])
              THEN push_heap(ns, point, Tail(heap), current)
              ELSE heap,
              next(ns, current))

nearest_k(h, point, k) ==
    IF k = 0 THEN [first |-> DefaultIt, last |-> DefaultIt]
    ELSE IF k >= get_size(h.nodes, h.root) THEN [first |-> begin(h), last |-> end]
    ELSE LET seed == take(h.nodes, begin_node(h.nodes, h.root), k)
         IN  [first |-> ListIt(scan(h.nodes, point,
                                    make_heap(h.nodes, point, seed.heap),
                                    seed.current)),
              last |-> DefaultIt]

\* for (it = first; it != last; ++it) ... *it: the points the loop meets
RECURSIVE Yield(_, _, _)
Yield(ns, first, last) ==
    IF IterEq(first, last) THEN <<>>
    ELSE <<IterDeref(ns, first)>> \o Yield(ns, IterInc(ns, first), last)

----------------------------------------------------------------------------
\* Construction from a file and by copy.

\* std::set<Point>::emplace into the ordered sequence of the set's elements
RECURSIVE emplace(_, _)
emplace(points, p) ==
    IF points = <<>> THEN <<p>>
    ELSE IF PointLt(p, points[1]) THEN <<p>> \o points
    ELSE IF PointLt(points[1], p) THEN <<points[1]>> \o emplace(Tail(points), p)
    ELSE points

RECURSIVE read_file(_)
read_file(file) ==
    IF file = <<>> THEN <<>>
    ELSE emplace(read_file(SubSeq(file, 1, Len(file) - 1)), file[Len(file)])

\* nodes.push_back(std::make_shared<Node>(p)) for every p of points, in order:
\* [nodes, result]
RECURSIVE make_nodes(_, _)
make_nodes(ns, points) ==
    IF points = <<>> THEN [nodes |-> ns, result |-> <<>>]
    ELSE LET a == Alloc(ns, points[1])
             rest == make_nodes([ns EXCEPT ![a] = Node(points[1])], Tail(points))
         IN  [nodes |-> rest.nodes, result |-> <<a>> \o rest.result]

\* Node(const Node &) over the subtree at src of ns: the copies are appended
\* to out, size and parent left at their in-class defaults: [nodes, root]
RECURSIVE CopyNode(_, _, _)
CopyNode(ns, src, out) ==
    LET l == IF ns[src].left # NULL THEN CopyNode(ns, ns[src].left, out)
             ELSE [nodes |-> out, root |-> NULL]
        r == IF ns[src].right # NULL THEN CopyNode(ns, ns[src].right, l.nodes)
             ELSE [nodes |-> l.nodes, root |-> NULL]
    IN  [nodes |-> Append(r.nodes,
                          [point |-> ns[src].point, rect |-> ns[src].rect,
                           size |-> 1, left |-> l.root, right |-> r.root,
                           parent |-> NULL]),
         root |-> Len(r.nodes) + 1]

----------------------------------------------------------------------------
\* The state machine.

Heap == [nodes |-> nodes, root |-> m_root]

NoRet == [op |-> "none"]
NoCopy == [made |-> FALSE]

\* PointSet() = default
Init ==
    /\ nodes = [a \in 1..Cells |-> Free]
    /\ m_root = NULL
    /\ fault = FALSE
    /\ inserted = {}
    /\ hist = [op |-> "new", rebuilt |-> FALSE, inner |-> FALSE, dup |-> FALSE]
    /\ ret = NoRet
    /\ visited = <<>>
    /\ cp = NoCopy

Idle == ~fault /\ ret = NoRet

Stored(ns) == {ns[n].point : n \in Live(ns)}

Files == UNION {[1..n -> Points] : n \in 0..MaxFile}

Rects == {r \in [left_bottom : Points, right_top : Points] :
            r.left_bottom.x <= r.right_top.x /\ r.left_bottom.y <= r.right_top.y}

\* PointSet(const std::string & filename), in place of the default constructor.
\* With no point read, set_parents(m_root) reads through a null pointer.
Load(file) ==
    /\ Idle
    /\ hist.op = "new"
    /\ LET points == read_file(file)
           made == make_nodes(nodes, points)
           built == build_tree(made.nodes, made.result, TRUE)
       IN  /\ m_root' = built.root
           /\ IF built.root = NULL
              THEN nodes' = built.nodes /\ fault' \in BOOLEAN
              ELSE nodes' = set_parents(built.nodes, built.root) /\ fault' = FALSE
           /\ inserted' = {points[i] : i \in 1..Len(points)}
           /\ hist' = [op |-> "load", rebuilt |-> FALSE, inner |-> FALSE,
                       dup |-> Len(points) < Len(file)]
    /\ UNCHANGED <<ret, visited, cp>>

Put(point) ==
    /\ Idle
    /\ Cardinality(Live(nodes)) < MaxNodes \/ point \in Stored(nodes)
    /\ LET r == put(Heap, point)
       IN  /\ nodes' = r.h.nodes
           /\ m_root' = r.h.root
           /\ hist' = [op |-> "put", rebuilt |-> r.rebuilt, inner |-> r.inner,
                       dup |-> Live(r.h.nodes) = Live(nodes)]
    /\ inserted' = inserted \cup {point}
    /\ UNCHANGED <<fault, ret, visited, cp>>

Contains(point) ==
    /\ Idle
    /\ ret' = [op |-> "contains", arg |-> point, value |-> contains(Heap, point)]
    /\ UNCHANGED <<nodes, m_root, fault, inserted, hist, visited, cp>>

Range(rect) ==
    /\ Idle
    /\ LET r == range(Heap, rect)
       IN  ret' = [op |-> "range", arg |-> rect, first |-> r.first, last |-> r.last]
    /\ UNCHANGED <<nodes, m_root, fault, inserted, hist, visited, cp>>

Nearest(point) ==
    /\ Idle
    /\ ret' = [op |-> "nearest", arg |-> point, value |-> nearest(Heap, point)]
    /\ UNCHANGED <<nodes, m_root, fault, inserted, hist, visited, cp>>

NearestK(point, k) ==
    /\ Idle
    /\ LET r == nearest_k(Heap, point, k)
       IN  ret' = [op |-> "nearest_k", arg |-> point, k |-> k,
                   first |-> r.first, last |-> r.last]
    /\ UNCHANGED <<nodes, m_root, fault, inserted, hist, visited, cp>>

Begin ==
    /\ Idle
    /\ ret' = [op |-> "begin", first |-> begin(Heap), last |-> end]
    /\ UNCHANGED <<nodes, m_root, fault, inserted, hist, visited, cp>>

\* operator<<(std::ostream &, const kdtree::PointSet &): the points written
Write ==
    /\ Idle
    /\ ret' = [op |-> "write", out |-> Yield(nodes, begin(Heap), end)]
    /\ UNCHANGED <<nodes, m_root, fault, inserted, hist, visited, cp>>

HasIterators == ret.op \in {"range", "nearest_k", "begin"}

\* one round of the caller's loop over a returned pair: *first, then ++first
Advance ==
    /\ ~fault
    /\ HasIterators
    /\ ~IterEq(ret.first, ret.last)
    /\ visited' = Append(visited, IterDeref(nodes, ret.first))
    /\ ret' = [ret EXCEPT !.first = IterInc(nodes, ret.first)]
    /\ UNCHANGED <<nodes, m_root, fault, inserted, hist, cp>>

\* PointSet(const PointSet & other) with other this set.  For an empty set,
\* set_parents(m_root) reads through a null pointer.
Copy ==
    /\ Idle
    /\ IF m_root # NULL
       THEN LET c == CopyNode(nodes, m_root, <<>>)
            IN  /\ cp' = [made |-> TRUE, nodes |-> set_parents(c.nodes, c.root),
                          root |-> c.root]
                /\ fault' = FALSE
       ELSE /\ cp' = [made |-> TRUE, nodes |-> <<>>, root |-> NULL]
            /\ fault' \in BOOLEAN
    /\ ret' = [op |-> "copy"]
    /\ UNCHANGED <<nodes, m_root, inserted, hist, visited>>

FineRects == {r \in [left_bottom : FinePoints, right_top : FinePoints] :
                r.left_bottom.x <= r.right_top.x /\ r.left_bottom.y <= r.right_top.y}

\* rect.distance(point), on a rectangle and a point of the full grid
Distance(rect, point) ==
    /\ Idle
    /\ ret' = [op |-> "distance", rect |-> rect, arg |-> point,
               value |-> RectDistance(rect, point)]
    /\ UNCHANGED <<nodes, m_root, fault, inserted, hist, visited, cp>>

\* the caller lets go of what the last query returned
Release ==
    /\ ~fault
    /\ ret # NoRet
    /\ ret' = NoRet
    /\ visited' = <<>>
    /\ cp' = NoCopy
    /\ UNCHANGED <<nodes, m_root, fault, inserted, hist>>

NextPut == \E point \in Points : Put(point)

SpecPut == Init /\ [][NextPut]_vars

NextBuild ==
    \/ \E file \in Files : Load(file)
    \/ \E point \in Points : Put(point)

SpecBuild == Init /\ [][NextBuild]_vars

NextRect ==
    \/ \E rect \in FineRects, point \in FinePoints : Distance(rect, point)
    \/ Release

SpecRect == Init /\ [][NextRect]_vars

NextContains ==
    \/ \E point \in Points : Put(point)
    \/ \E point \in Points : Contains(point)
    \/ Release

SpecContains == Init /\ [][NextContains]_vars

NextRange ==
    \/ \E point \in Points : Put(point)
    \/ \E rect \in Rects : Range(rect)
    \/ Release

SpecRange == Init /\ [][NextRange]_vars

NextNearest ==
    \/ \E point \in Points : Put(point)
    \/ \E point \in Points : Nearest(point)
    \/ Release

SpecNearest == Init /\ [][NextNearest]_vars

NextNearestK ==
    \/ \E point \in Points : Put(point)
    \/ \E point \in Points, k \in 0..(MaxNodes + 1) : NearestK(point, k)
    \/ Release

SpecNearestK == Init /\ [][NextNearestK]_vars

NextCopy ==
    \/ \E point \in Points : Put(point)
    \/ Copy
    \/ Release

SpecCopy == Init /\ [][NextCopy]_vars

NextEmpty ==
    \/ \E file \in Files : Load(file)
    \/ \E point \in Points : Put(point)
    \/ Copy
    \/ Release

SpecEmpty == Init /\ [][NextEmpty]_vars

NextWrite ==
    \/ \E file \in Files : Load(file)
    \/ \E point \in Points : Put(point)
    \/ Write
    \/ Release

SpecWrite == Init /\ [][NextWrite]_vars

NextIter ==
    \/ \E point \in Points : Put(point)
    \/ Begin
    \/ \E rect \in Rects : Range(rect)
    \/ \E point \in Points, k \in 0..(MaxNodes + 1) : NearestK(point, k)
    \/ Advance
    \/ Release

SpecIter == Init /\ [][NextIter]_vars

----------------------------------------------------------------------------
\* What the properties speak of.

\* the addresses of the subtree at n
RECURSIVE Reach(_, _)
Reach(ns, n) ==
    IF n = NULL THEN {}
    ELSE {n} \cup Reach(ns, ns[n].left) \cup Reach(ns, ns[n].right)

TreePoints(h) == {h.nodes[n].point : n \in Reach(h.nodes, h.root)}

Count(ns, n) == Cardinality(Reach(ns, n))

Range1(seq) == {seq[i] : i \in 1..Len(seq)}

NoRepeat(seq) == Cardinality(Range1(seq)) = Len(seq)

----------------------------------------------------------------------------
\* C1: after every put, at every node reachable from the root, neither
\* child's subtree holds more than 0.65 of the node's subtree.
C1_WeightBalanced ==
    \A n \in Reach(nodes, m_root) :
        /\ 100 * Count(nodes, nodes[n].left) <= 65 * Count(nodes, n)
        /\ 100 * Count(nodes, nodes[n].right) <= 65 * Count(nodes, n)

C6_KNearest ==
    ret.op = "nearest_k" =>
        LET out == Yield(nodes, ret.first, ret.last)
        IN  /\ Len(out) = Min(ret.k, size(Heap))
            /\ NoRepeat(out)
            /\ Range1(out) \subseteq inserted
            /\ \A p \in Range1(out) : \A q \in inserted \ Range1(out) :
                PointDistance(ret.arg, p) <= PointDistance(ret.arg, q)

C6_Witness ==
    /\ ret.op = "nearest_k"
    /\ ret.k >= 2 /\ ret.k < size(Heap)
    /\ Range1(Yield(nodes, ret.first, ret.last))
         # Range1(SubSeq(Yield(nodes, begin(Heap), end), 1, ret.k))

CopyHeap == [nodes |-> cp.nodes, root |-> cp.root]

\* C7: a copy of a non-empty set has the size and the points of the original,
\* every node's size is 1 + size(left) + size(right), and every child's parent
\* is the node that owns it.
C7_CopyEqualsOriginal ==
    (cp.made /\ m_root # NULL) =>
        /\ size(CopyHeap) = size(Heap)
        /\ TreePoints(CopyHeap) = TreePoints(Heap)
        /\ \A n \in Reach(cp.nodes, cp.root) :
            /\ cp.nodes[n].size = 1 + get_size(cp.nodes, cp.nodes[n].left)
                                    + get_size(cp.nodes, cp.nodes[n].right)
            /\ cp.nodes[n].left # NULL => cp.nodes[cp.nodes[n].left].parent = n
            /\ cp.nodes[n].right # NULL => cp.nodes[cp.nodes[n].right].parent = n

\* C8: building from a source with no point, and copying an empty set, complete
\* normally, and the set they make is empty for every query.
EmptyForQueries(h) ==
    /\ empty(h) /\ size(h) = 0
    /\ \A p \in Points : ~contains(h, p) /\ nearest(h, p) = nullopt
    /\ \A r \in Rects : Yield(h.nodes, range(h, r).first, range(h, r).last) = <<>>
    /\ \A p \in Points : \A k \in 0..MaxNodes :
        Yield(h.nodes, nearest_k(h, p, k).first, nearest_k(h, p, k).last) = <<>>
    /\ IterEq(begin(h), end)

C8_EmptySetNeverFaults ==
    /\ (hist.op = "load" /\ inserted = {}) => (~fault /\ EmptyForQueries(Heap))
    /\ (cp.made /\ m_root = NULL) => (~fault /\ EmptyForQueries(CopyHeap))

\* C9: the traversal from begin() to end() takes size() advances and meets
\* every stored point once.
C9_TraversalVisitsAll ==
    ret.op = "write" =>
        /\ Len(ret.out) = size(Heap)
        /\ Range1(ret.out) = inserted
        /\ NoRepeat(ret.out)

C9_Witness ==
    /\ ret.op = "write"
    /\ hist.op = "put" /\ hist.rebuilt /\ hist.inner
    /\ Len(ret.out) = MaxNodes

Exhausted(i) ==
    \/ i.index = 0 /\ i.list = <<>>
    \/ i.index = 1 /\ i.node = NULL

\* C10 as stated: an iterator at the end of its sequence, of either form,
\* equals end() and equals a default-constructed iterator.
C10_UniformEnd ==
    (HasIterators /\ Exhausted(ret.first)) =>
        /\ IterEq(ret.first, end)
        /\ IterEq(ret.first, DefaultIt)

\* C10 as amended: an iterator at the end of its sequence equals the end
\* iterator it was returned with; that is the default-constructed iterator for
\* the list form and end() for the traversal form, and these two differ.
C10_EndPerForm ==
    (HasIterators /\ Exhausted(ret.first)) =>
        /\ IterEq(ret.first, ret.last)
        /\ ret.first.index = 0 =>
            IterEq(ret.first, DefaultIt) /\ ~IterEq(ret.first, end)
        /\ ret.first.index = 1 =>
            IterEq(ret.first, end) /\ ~IterEq(ret.first, DefaultIt)

C10_Witness ==
    /\ ret.op = "range"
    /\ Len(visited) >= 2
    /\ Exhausted(ret.first)

----------------------------------------------------------------------------
SetMin(S) == CHOOSE v \in S : \A w \in S : v <= w
SetMax(S) == CHOOSE v \in S : \A w \in S : v >= w

\* the axis-aligned bounding box of a non-empty set of points
BoundingBox(S) ==
    MakeRect([x |-> SetMin({p.x : p \in S}), y |-> SetMin({p.y : p \in S})],
             [x |-> SetMax({p.x : p \in S}), y |-> SetMax({p.y : p \in S})])

SubtreePoints(ns, n) == {ns[m].point : m \in Reach(ns, n)}

\* C11: after every put, every node's size is 1 + size(left) + size(right)
\* and every node's rect is the bounding box of the points of its subtree,
\* its own point included.
C11_SizeAndRect ==
    \A n \in Reach(nodes, m_root) :
        /\ nodes[n].size = 1 + get_size(nodes, nodes[n].left)
                              + get_size(nodes, nodes[n].right)
        /\ nodes[n].size = Count(nodes, n)
        /\ nodes[n].rect = BoundingBox(SubtreePoints(nodes, n))

\* a put that rebuilt a subtree below the root, whose ancestors hold
\* rectangles of positive area
C11_Witness ==
    /\ hist.op = "put" /\ hist.rebuilt /\ hist.inner
    /\ nodes[m_root].size = MaxNodes
    /\ xmin(nodes[m_root].rect) < xmax(nodes[m_root].rect)
    /\ ymin(nodes[m_root].rect) < ymax(nodes[m_root].rect)

----------------------------------------------------------------------------
\* the kd ordering of the subtree at n, whose root compares x iff check_x
RECURSIVE KdOrdered(_, _, _)
KdOrdered(ns, n, check_x) ==
    \/ n = NULL
    \/ /\ \A p \in SubtreePoints(ns, ns[n].left) : less(p, ns[n].point, check_x)
       /\ \A p \in SubtreePoints(ns, ns[n].right) : ~less(p, ns[n].point, check_x)
       /\ KdOrdered(ns, ns[n].left, ~check_x)
       /\ KdOrdered(ns, ns[n].right, ~check_x)

\* C12: after a bulk build and after every put the kd ordering holds from
\* the root with the axis alternating by depth, x at the root: the left
\* subtree of a node is strictly less than the node on the node's axis and
\* the right subtree is not less.
C12_KdOrdering ==
    KdOrdered(nodes, m_root, TRUE)

\* a put that rebuilt a subtree below the root, in a tree where a node below
\* the root has both children
C12_Witness ==
    /\ hist.op = "put" /\ hist.rebuilt /\ hist.inner
    /\ \E n \in Reach(nodes, m_root) :
          n # m_root /\ nodes[n].left # NULL /\ nodes[n].right # NULL

----------------------------------------------------------------------------
\* C13: the tree build_tree returns over nodes of pairwise distinct points
\* holds exactly those nodes and is weight-balanced at every node: neither
\* child's subtree holds more than 0.65 of the node's subtree.
C13_BuildBalanced ==
    (hist.op = "load" /\ ~fault) =>
        /\ TreePoints(Heap) = inserted
        /\ Count(nodes, m_root) = Cardinality(inserted)
        /\ \A n \in Reach(nodes, m_root) :
              /\ 100 * Count(nodes, nodes[n].left) <= alpha * Count(nodes, n)
              /\ 100 * Count(nodes, nodes[n].right) <= alpha * Count(nodes, n)

----------------------------------------------------------------------------
\* q lies in the rectangle r, boundary included
Inside(r, q) ==
    xmin(r) <= q.x /\ q.x <= xmax(r) /\ ymin(r) <= q.y /\ q.y <= ymax(r)

\* C14: for a rectangle with left_bottom <= right_top and a point p,
\* Rect::distance(p) is 0 when the rectangle contains p, and otherwise it
\* exceeds the distance from p to no point inside the rectangle.
C14_DistanceAdmissible ==
    ret.op = "distance" =>
        IF RectContains(ret.rect, ret.arg) THEN ret.value = 0
        ELSE \A q \in FinePoints :
                Inside(ret.rect, q) => ret.value <= PointDistance(ret.arg, q)

====
